---- MODULE Spec2Model ----
(***************************************************************************)
(* Model of 21_black_jack.py: the strategy, hand-evaluation, outcome and   *)
(* Hi-Lo counting functions, and the session state machine driven by the   *)
(* window's handlers (card buttons, combos, finish hand, new hand, new     *)
(* shoe).                                                                  *)
(***************************************************************************)
EXTENDS Integers, Sequences, FiniteSets, TLC

VARIABLES
    player_buttons,      \* BlackjackPremiumUI.player_buttons: label -> [selected_count, max_count]
    table_buttons,       \* BlackjackPremiumUI.table_buttons:  label -> [selected_count, max_count]
    dealer_combo,        \* current text of dealer_combo ("" = nothing selected)
    dealer_hidden_combo, \* current text of dealer_hidden_combo
    decks_combo,         \* current text of decks_combo, as a number
    game_state,          \* GameState dataclass
    session_stats,       \* SessionStats dataclass
    info_panel,          \* what update_analysis last displayed: [optimal_play, explanation]
    last_handler,        \* the handler that ran last ("__init__" at start)
    call                 \* a direct call of one of the pure functions: arguments and result

vars == <<player_buttons, table_buttons, dealer_combo, dealer_hidden_combo,
          decks_combo, game_state, session_stats, info_panel, last_handler, call>>

prog_vars == <<player_buttons, table_buttons, dealer_combo, dealer_hidden_combo,
               decks_combo, game_state, session_stats, info_panel>>

ui_vars == <<player_buttons, table_buttons, dealer_combo, dealer_hidden_combo,
             decks_combo, game_state, session_stats, info_panel, last_handler>>

-----------------------------------------------------------------------------
(* Enumerations *)

HIT == "Pedir"
STAND == "Plantarse"
DOUBLE == "Doblar"
SPLIT == "Dividir"
SURRENDER == "Rendirse"
PlayAction == {HIT, STAND, DOUBLE, SPLIT, SURRENDER}

WIN == "Ganada"
LOSE == "Perdida"
PUSH == "Empate"
PENDING == "En juego"
GameResult == {WIN, LOSE, PUSH, PENDING}

CARD_LABELS == <<"2", "3", "4", "5", "6", "7", "8", "9", "10", "J", "Q", "K", "A">>

Labels == {CARD_LABELS[i] : i \in 1..Len(CARD_LABELS)}

\* Position of a label in CARD_LABELS (the order of the buttons).
LabelIndex(card) == CHOOSE i \in 1..Len(CARD_LABELS) : CARD_LABELS[i] = card

\* Python's int() on the numeric labels.
IntOf(card) ==
    CASE card = "2" -> 2 [] card = "3" -> 3 [] card = "4" -> 4
      [] card = "5" -> 5 [] card = "6" -> 6 [] card = "7" -> 7
      [] card = "8" -> 8 [] card = "9" -> 9 [] card = "10" -> 10

-----------------------------------------------------------------------------
(* BlackjackStrategy *)

\* HARD_STRATEGY with the band of 13-16 also applied to 12.
HARD_STRATEGY_Stand12Vs2 ==
    [key \in (5..21) \X (2..11) |->
        LET i == key[1]
            j == key[2]
        IN  IF i \in 5..11 THEN HIT
            ELSE IF i \in 12..16 THEN (IF 2 <= j /\ j <= 6 THEN STAND ELSE HIT)
            ELSE STAND]

HARD_STRATEGY ==
    [key \in (5..21) \X (2..11) |->
        LET i == key[1]
            j == key[2]
        IN  IF i \in 5..11 THEN HIT
            ELSE IF i = 12 THEN (IF 4 <= j /\ j <= 6 THEN STAND ELSE HIT)
            ELSE IF i \in 13..16 THEN (IF 2 <= j /\ j <= 6 THEN STAND ELSE HIT)
            ELSE STAND]

SOFT_STRATEGY ==
    [key \in (13..21) \X (2..11) |->
        LET i == key[1]
            j == key[2]
        IN  IF i \in 13..17 THEN (IF j >= 7 THEN HIT ELSE DOUBLE)
            ELSE IF i = 18 THEN (IF j \in {2, 7, 8} THEN STAND
                                 ELSE IF 3 <= j /\ j <= 6 THEN DOUBLE ELSE HIT)
            ELSE STAND]

get_card_value(card) ==
    IF card \in {"J", "Q", "K"} THEN 10
    ELSE IF card = "A" THEN 11
    ELSE IntOf(card)

\* The for loop of calculate_hand_value: <<total, aces>> with every Ace as 11.
RECURSIVE SumCards(_)
SumCards(cards) ==
    IF cards = <<>> THEN <<0, 0>>
    ELSE LET rest == SumCards(Tail(cards))
             card == Head(cards)
         IN  IF card = "A" THEN <<rest[1] + 11, rest[2] + 1>>
             ELSE <<rest[1] + get_card_value(card), rest[2]>>

\* The reduction done once (an if for the while).
ReduceAces_Once(total, aces) ==
    IF total > 21 /\ aces > 0 THEN <<total - 10, aces - 1>> ELSE <<total, aces>>

\* The while loop of calculate_hand_value.
RECURSIVE ReduceAces(_, _)
ReduceAces(total, aces) ==
    IF total > 21 /\ aces > 0 THEN ReduceAces(total - 10, aces - 1)
    ELSE <<total, aces>>

calculate_hand_value(cards) ==
    LET s == SumCards(cards)
        r == ReduceAces(s[1], s[2])
    IN  [total |-> r[1], is_soft |-> (r[2] > 0 /\ r[1] <= 21)]

\* determine_winner with the dealer's bust tested before the player's.
determine_winner_DealerBustFirst(player_cards, dealer_cards) ==
    IF player_cards = <<>> \/ dealer_cards = <<>> THEN PENDING
    ELSE
    LET player_total == calculate_hand_value(player_cards).total
        dealer_total == calculate_hand_value(dealer_cards).total
        player_bj == Len(player_cards) = 2 /\ player_total = 21
        dealer_bj == Len(dealer_cards) = 2 /\ dealer_total = 21
    IN  IF dealer_total > 21 THEN WIN
        ELSE IF player_total > 21 THEN LOSE
        ELSE IF player_bj /\ dealer_bj THEN PUSH
        ELSE IF player_bj /\ ~dealer_bj THEN WIN
        ELSE IF dealer_bj /\ ~player_bj THEN LOSE
        ELSE IF player_total > dealer_total THEN WIN
        ELSE IF dealer_total > player_total THEN LOSE
        ELSE PUSH

\* determine_winner without the test of the dealer's bust.
determine_winner_NoDealerBust(player_cards, dealer_cards) ==
    IF player_cards = <<>> \/ dealer_cards = <<>> THEN PENDING
    ELSE
    LET player_total == calculate_hand_value(player_cards).total
        dealer_total == calculate_hand_value(dealer_cards).total
        player_bj == Len(player_cards) = 2 /\ player_total = 21
        dealer_bj == Len(dealer_cards) = 2 /\ dealer_total = 21
    IN  IF player_total > 21 THEN LOSE
        ELSE IF player_bj /\ dealer_bj THEN PUSH
        ELSE IF player_bj /\ ~dealer_bj THEN WIN
        ELSE IF dealer_bj /\ ~player_bj THEN LOSE
        ELSE IF player_total > dealer_total THEN WIN
        ELSE IF dealer_total > player_total THEN LOSE
        ELSE PUSH

determine_winner(player_cards, dealer_cards) ==
    IF player_cards = <<>> \/ dealer_cards = <<>> THEN PENDING
    ELSE
    LET player_total == calculate_hand_value(player_cards).total
        dealer_total == calculate_hand_value(dealer_cards).total
        player_bj == Len(player_cards) = 2 /\ player_total = 21
        dealer_bj == Len(dealer_cards) = 2 /\ dealer_total = 21
    IN  IF player_total > 21 THEN LOSE
        ELSE IF dealer_total > 21 THEN WIN
        ELSE IF player_bj /\ dealer_bj THEN PUSH
        ELSE IF player_bj /\ ~dealer_bj THEN WIN
        ELSE IF dealer_bj /\ ~player_bj THEN LOSE
        ELSE IF player_total > dealer_total THEN WIN
        ELSE IF dealer_total > player_total THEN LOSE
        ELSE PUSH

\* The deviations with a strict threshold (true_count > 2).
CountAdjust_Strict(action, player_total, dealer_value, true_count) ==
    IF true_count > 200
    THEN IF player_total = 16 /\ dealer_value = 10 THEN STAND
         ELSE IF player_total = 15 /\ dealer_value = 10 THEN STAND
         ELSE action
    ELSE action

\* The count deviations of get_optimal_play; true_count is in hundredths.
CountAdjust(action, player_total, dealer_value, true_count) ==
    IF true_count >= 200
    THEN IF player_total = 16 /\ dealer_value = 10 THEN STAND
         ELSE IF player_total = 15 /\ dealer_value = 10 THEN STAND
         ELSE action
    ELSE action

\* Returns [action, explanation]; the explanation of a table hit is
\* "Mano hard <total>: <action>", kept here without its two insertions.
get_optimal_play(player_cards, dealer_card, true_count, can_double, can_split) ==
    IF player_cards = <<>>
    THEN [action |-> HIT, explanation |-> "Necesitas cartas para jugar"]
    ELSE
    LET hv == calculate_hand_value(player_cards)
        player_total == hv.total
        dealer_value == IF dealer_card # "A" THEN get_card_value(dealer_card) ELSE 11
        key == <<player_total, dealer_value>>
    IN  IF key \in DOMAIN HARD_STRATEGY
        THEN LET base == HARD_STRATEGY[key]
                 action == IF base = DOUBLE /\ ~can_double THEN HIT ELSE base
             IN  [action |-> CountAdjust(action, player_total, dealer_value, true_count),
                  explanation |-> "Mano hard"]
        ELSE IF player_total >= 17
             THEN [action |-> STAND, explanation |-> "Mano alta, plantarse"]
             ELSE [action |-> HIT, explanation |-> "Pedir carta"]

-----------------------------------------------------------------------------
(* CardCountingEngine *)

HI_LO_VALUES(card) ==
    IF card \in {"2", "3", "4", "5", "6"} THEN 1
    ELSE IF card \in {"7", "8", "9"} THEN 0
    ELSE IF card \in {"10", "J", "Q", "K", "A"} THEN -1
    ELSE 0

RECURSIVE SumHiLo(_)
SumHiLo(cards) ==
    IF cards = <<>> THEN 0
    ELSE IF Len(cards) = 1 THEN HI_LO_VALUES(cards[1])
    ELSE LET half == Len(cards) \div 2
         IN  SumHiLo(SubSeq(cards, 1, half)) + SumHiLo(SubSeq(cards, half + 1, Len(cards)))

\* round() of the rational n/d (d > 0) to an integer: the nearest one. On an
\* exact tie the float the program holds is a neighbour of the tie and
\* round() follows that float; ties are taken to even here. With 1 or 6
\* decks no tie exists below 20 cards seen.
RoundDiv(n, d) ==
    LET q == (2 * n + d) \div (2 * d)
    IN  IF (2 * n + d) % (2 * d) = 0 /\ q % 2 = 1 THEN q - 1 ELSE q

\* The floor at a quarter of a deck.
DecksRemaining52_QuarterFloor(cards_dealt, num_decks) ==
    IF 52 * num_decks - cards_dealt > 13 THEN 52 * num_decks - cards_dealt ELSE 13

\* decks_remaining before rounding, in 52nds of a deck: max(0.5, num_decks - cards_dealt/52.0).
DecksRemaining52(cards_dealt, num_decks) ==
    IF 52 * num_decks - cards_dealt > 26 THEN 52 * num_decks - cards_dealt ELSE 26

\* Returns running_count, round(true_count, 2) and round(decks_remaining, 2);
\* the two rounded values are in hundredths.
calculate_counts(all_cards, num_decks) ==
    LET running_count == SumHiLo(all_cards)
        cards_dealt == Len(all_cards)
        dr52 == DecksRemaining52(cards_dealt, num_decks)
    IN  [running_count |-> running_count,
         true_count |-> RoundDiv(running_count * 5200, dr52),
         decks_remaining |-> RoundDiv(dr52 * 100, 52)]

-----------------------------------------------------------------------------
(* EnhancedCardButton *)

NewButton == [selected_count |-> 0, max_count |-> 4]

LeftClick(btn) ==
    IF btn.selected_count < btn.max_count
    THEN [btn EXCEPT !.selected_count = @ + 1]
    ELSE btn

RightClick(btn) ==
    IF btn.selected_count > 0
    THEN [btn EXCEPT !.selected_count = @ - 1]
    ELSE btn

reset(btn) == [btn EXCEPT !.selected_count = 0]

add_cards(btn, count) ==
    [btn EXCEPT !.selected_count =
        IF btn.selected_count + count < btn.max_count
        THEN btn.selected_count + count ELSE btn.max_count]

\* [label] * n
Repeat(label, n) == [i \in 1..n |-> label]

get_selected_cards(buttons, label) == Repeat(label, buttons[label].selected_count)

\* The extend loop of update_analysis over the buttons, in CARD_LABELS order,
\* from position i on.
RECURSIVE SelectedFrom(_, _)
SelectedFrom(buttons, i) ==
    IF i > Len(CARD_LABELS) THEN <<>>
    ELSE get_selected_cards(buttons, CARD_LABELS[i]) \o SelectedFrom(buttons, i + 1)

SelectedCards(buttons) == SelectedFrom(buttons, 1)

-----------------------------------------------------------------------------
(* BlackjackPremiumUI *)

NoPlay == "Pendiente"

\* update_analysis: game_state and the panel recomputed from the widgets.
AnalysedState(gs, pbuttons, tbuttons, dealer_card) ==
    LET player_cards == SelectedCards(pbuttons)
        table_cards == SelectedCards(tbuttons)
        all_cards == player_cards \o table_cards
                       \o (IF dealer_card # "" THEN <<dealer_card>> ELSE <<>>)
        counts == calculate_counts(all_cards, gs.num_decks)
    IN  [gs EXCEPT !.player_cards = player_cards,
                   !.dealer_card = dealer_card,
                   !.table_cards = table_cards,
                   !.running_count = counts.running_count,
                   !.true_count = counts.true_count,
                   !.decks_remaining = counts.decks_remaining]

AnalysedPanel(gs) ==
    IF gs.player_cards # <<>> /\ gs.dealer_card # ""
    THEN LET play == get_optimal_play(gs.player_cards, gs.dealer_card,
                                      gs.true_count, TRUE, TRUE)
         IN  [optimal_play |-> play.action, explanation |-> play.explanation]
    ELSE [optimal_play |-> NoPlay,
          explanation |-> "Selecciona tus cartas y la carta del crupier"]

update_analysis(gs, pbuttons, tbuttons, dealer_card) ==
    /\ game_state' = AnalysedState(gs, pbuttons, tbuttons, dealer_card)
    /\ info_panel' = AnalysedPanel(game_state')

\* "Total cartas jugadas" of the panel.
CardsPlayed(gs) ==
    Len(gs.player_cards) + Len(gs.table_cards) + (IF gs.dealer_card # "" THEN 1 ELSE 0)

NewStats == [wins |-> 0, losses |-> 0, pushes |-> 0, total_hands |-> 0]

NewGameState(num_decks) ==
    [player_cards |-> <<>>, dealer_card |-> "", dealer_hidden_card |-> "",
     table_cards |-> <<>>, num_decks |-> num_decks, running_count |-> 0,
     true_count |-> 0, decks_remaining |-> 100 * num_decks]

\* Bounds of the session model.
MaxPlayerCards == 2
MaxTableCards == 1
MaxHands == 2

\* What the user marks and selects in the session model.
PlayerClickLabels == {"5", "K"}
TableClickLabels == {"9"}
DealerChoices == {"", "K"}
HiddenChoices == {"", "5"}
DeckChoices == {1, 6}

NoCall == [op |-> "none"]

\* The state after __init__: setup_ui, then reset_game.
UIInit ==
    /\ player_buttons = [l \in Labels |-> NewButton]
    /\ table_buttons = [l \in Labels |-> NewButton]
    /\ dealer_combo = ""
    /\ dealer_hidden_combo = ""
    /\ decks_combo = 6
    /\ game_state = AnalysedState(NewGameState(6), [l \in Labels |-> NewButton],
                                  [l \in Labels |-> NewButton], "")
    /\ session_stats = NewStats
    /\ info_panel = AnalysedPanel(NewGameState(6))
    /\ last_handler = "__init__"

Init ==
    /\ UIInit
    /\ call = NoCall

\* mousePressEvent on a player button.
PlayerLeftClick(label) ==
    /\ last_handler' = "mousePressEvent"
    /\ Len(game_state.player_cards) < MaxPlayerCards
    /\ player_buttons' = [player_buttons EXCEPT ![label] = LeftClick(@)]
    /\ update_analysis(game_state, player_buttons', table_buttons, dealer_combo)
    /\ UNCHANGED <<table_buttons, dealer_combo, dealer_hidden_combo, decks_combo,
                   session_stats, call>>

PlayerRightClick(label) ==
    /\ last_handler' = "mousePressEvent"
    /\ player_buttons' = [player_buttons EXCEPT ![label] = RightClick(@)]
    /\ update_analysis(game_state, player_buttons', table_buttons, dealer_combo)
    /\ UNCHANGED <<table_buttons, dealer_combo, dealer_hidden_combo, decks_combo,
                   session_stats, call>>

\* mousePressEvent on a table button.
TableLeftClick(label) ==
    /\ last_handler' = "mousePressEvent"
    /\ Len(game_state.table_cards) < MaxTableCards
    /\ table_buttons' = [table_buttons EXCEPT ![label] = LeftClick(@)]
    /\ update_analysis(game_state, player_buttons, table_buttons', dealer_combo)
    /\ UNCHANGED <<player_buttons, dealer_combo, dealer_hidden_combo, decks_combo,
                   session_stats, call>>

TableRightClick(label) ==
    /\ last_handler' = "mousePressEvent"
    /\ table_buttons' = [table_buttons EXCEPT ![label] = RightClick(@)]
    /\ update_analysis(game_state, player_buttons, table_buttons', dealer_combo)
    /\ UNCHANGED <<player_buttons, dealer_combo, dealer_hidden_combo, decks_combo,
                   session_stats, call>>

\* The user picks another entry of dealer_combo: currentTextChanged -> update_analysis.
SelectDealer(text) ==
    /\ last_handler' = "update_analysis"
    /\ text # dealer_combo
    /\ dealer_combo' = text
    /\ update_analysis(game_state, player_buttons, table_buttons, text)
    /\ UNCHANGED <<player_buttons, table_buttons, dealer_hidden_combo, decks_combo,
                   session_stats, call>>

\* The user picks another entry of dealer_hidden_combo: no slot is connected.
SelectHidden(text) ==
    /\ last_handler' = "dealer_hidden_combo"
    /\ text # dealer_hidden_combo
    /\ dealer_hidden_combo' = text
    /\ UNCHANGED <<player_buttons, table_buttons, dealer_combo, decks_combo,
                   game_state, session_stats, info_panel, call>>

\* The user picks another entry of decks_combo: currentTextChanged -> on_decks_changed.
on_decks_changed(n) ==
    /\ last_handler' = "on_decks_changed"
    /\ n # decks_combo
    /\ decks_combo' = n
    /\ player_buttons' = [l \in Labels |-> [player_buttons[l] EXCEPT !.max_count = n * 4]]
    /\ table_buttons' = [l \in Labels |-> [table_buttons[l] EXCEPT !.max_count = n * 4]]
    /\ update_analysis([game_state EXCEPT !.num_decks = n],
                       player_buttons', table_buttons', dealer_combo)
    /\ UNCHANGED <<dealer_combo, dealer_hidden_combo, session_stats, call>>

\* Number of times card occurs in cards (player_cards_count of finish_hand).
CountOf(cards, card) == Cardinality({i \in 1..Len(cards) : cards[i] = card})

\* The statistics update without its last branch (a push is not counted).
RecordResult_NoPush(stats, result) ==
    LET s == [stats EXCEPT !.total_hands = @ + 1]
    IN  IF result = WIN THEN [s EXCEPT !.wins = @ + 1]
        ELSE IF result = LOSE THEN [s EXCEPT !.losses = @ + 1]
        ELSE s

\* The statistics update of finish_hand.
RecordResult(stats, result) ==
    LET s == [stats EXCEPT !.total_hands = @ + 1]
    IN  IF result = WIN THEN [s EXCEPT !.wins = @ + 1]
        ELSE IF result = LOSE THEN [s EXCEPT !.losses = @ + 1]
        ELSE IF result = PUSH THEN [s EXCEPT !.pushes = @ + 1]
        ELSE s

\* The two loops of finish_hand over table_buttons: the player's cards, then
\* the dealer's hidden card.
MoveToTable(tbuttons, player_cards, hidden_card) ==
    LET moved == [l \in Labels |->
                    IF CountOf(player_cards, l) > 0
                    THEN add_cards(tbuttons[l], CountOf(player_cards, l))
                    ELSE tbuttons[l]]
    IN  [l \in Labels |-> IF l = hidden_card THEN add_cards(moved[l], 1) ELSE moved[l]]

\* The guards of finish_hand without the first (the player's cards).
FinishRejected_NoPlayerCheck ==
    \/ game_state.dealer_card = ""
    \/ dealer_hidden_combo = ""

FinishRejected ==
    \/ game_state.player_cards = <<>>
    \/ game_state.dealer_card = ""
    \/ dealer_hidden_combo = ""

finish_hand ==
    /\ last_handler' = "finish_hand"
    /\ IF FinishRejected
       THEN UNCHANGED <<prog_vars, call>>
       ELSE
       LET hidden_card == dealer_hidden_combo
           dealer_cards == <<game_state.dealer_card, hidden_card>>
           result == determine_winner(game_state.player_cards, dealer_cards)
       IN  /\ session_stats.total_hands < MaxHands
           /\ session_stats' = RecordResult(session_stats, result)
           /\ table_buttons' = MoveToTable(table_buttons, game_state.player_cards, hidden_card)
           /\ player_buttons' = [l \in Labels |-> reset(player_buttons[l])]
           /\ dealer_combo' = ""
           /\ dealer_hidden_combo' = ""
           /\ update_analysis(game_state, player_buttons', table_buttons', "")
           /\ UNCHANGED <<decks_combo, call>>

reset_hand_only ==
    /\ last_handler' = "reset_hand_only"
    /\ player_buttons' = [l \in Labels |-> reset(player_buttons[l])]
    /\ dealer_combo' = ""
    /\ dealer_hidden_combo' = ""
    /\ update_analysis(game_state, player_buttons', table_buttons, "")
    /\ UNCHANGED <<table_buttons, decks_combo, session_stats, call>>

\* reset_game without the new SessionStats.
reset_game_KeepStats ==
    /\ last_handler' = "reset_game"
    /\ player_buttons' = [l \in Labels |-> reset(player_buttons[l])]
    /\ table_buttons' = [l \in Labels |-> reset(table_buttons[l])]
    /\ dealer_combo' = ""
    /\ dealer_hidden_combo' = ""
    /\ update_analysis(NewGameState(decks_combo), player_buttons', table_buttons', "")
    /\ UNCHANGED <<decks_combo, session_stats, call>>

reset_game ==
    /\ last_handler' = "reset_game"
    /\ player_buttons' = [l \in Labels |-> reset(player_buttons[l])]
    /\ table_buttons' = [l \in Labels |-> reset(table_buttons[l])]
    /\ dealer_combo' = ""
    /\ dealer_hidden_combo' = ""
    /\ session_stats' = NewStats
    /\ update_analysis(NewGameState(decks_combo), player_buttons', table_buttons', "")
    /\ UNCHANGED <<decks_combo, call>>

Next ==
    \/ \E label \in PlayerClickLabels : PlayerLeftClick(label)
    \/ \E label \in PlayerClickLabels : PlayerRightClick(label)
    \/ \E label \in TableClickLabels : TableLeftClick(label)
    \/ \E label \in TableClickLabels : TableRightClick(label)
    \/ \E text \in DealerChoices : SelectDealer(text)
    \/ \E text \in HiddenChoices : SelectHidden(text)
    \/ \E n \in DeckChoices : on_decks_changed(n)
    \/ finish_hand
    \/ reset_hand_only
    \/ reset_game

Spec == Init /\ [][Next]_vars

-----------------------------------------------------------------------------
(* Direct calls of the pure functions, on bounded arguments *)

MaxEvalLen == 4
MaxStratLen == 4
MaxResolveLen == 3

\* Lists in button order, as update_analysis builds them (non-decreasing
\* position in CARD_LABELS), of at most n cards taken from S.
OrderedHands(S, n) ==
    UNION {{h \in [1..k -> S] :
              \A i \in 1..(k - 1) : LabelIndex(h[i]) <= LabelIndex(h[i + 1])}
           : k \in 0..n}

\* All lists of at most n cards.
AllHands(S, n) == UNION {[1..k -> S] : k \in 0..n}

\* True counts offered to get_optimal_play, in hundredths.
TrueCounts == {-150, 0, 199, 200}

\* Labels offered to determine_winner: every card value class.
ResolveLabels == {"2", "3", "4", "5", "6", "7", "8", "9", "10", "K", "A"}

\* evaluate: calculate_hand_value called on every list of at most MaxEvalLen cards.
InitEvaluate ==
    /\ UIInit
    /\ \E cards \in AllHands(Labels, MaxEvalLen) :
          call = [op |-> "evaluate", cards |-> cards, done |-> FALSE]

CallEvaluate ==
    /\ call.op = "evaluate"
    /\ ~call.done
    /\ call' = [op |-> "evaluate", cards |-> call.cards, done |-> TRUE,
                ret |-> calculate_hand_value(call.cards)]
    /\ UNCHANGED ui_vars

SpecEvaluate == InitEvaluate /\ [][CallEvaluate]_vars

\* recommend: get_optimal_play called as update_analysis calls it, on a hand in
\* button order, with every dealer card, and with can_double either way.
InitRecommend ==
    /\ UIInit
    /\ \E cards \in OrderedHands(Labels, MaxStratLen), dealer_card \in Labels,
          true_count \in TrueCounts, can_double \in BOOLEAN :
          call = [op |-> "recommend", player_cards |-> cards, dealer_card |-> dealer_card,
                  true_count |-> true_count, can_double |-> can_double,
                  can_split |-> TRUE, done |-> FALSE]

CallRecommend ==
    /\ call.op = "recommend"
    /\ ~call.done
    /\ call' = [op |-> "recommend", player_cards |-> call.player_cards,
                dealer_card |-> call.dealer_card, true_count |-> call.true_count,
                can_double |-> call.can_double, can_split |-> call.can_split,
                done |-> TRUE,
                ret |-> get_optimal_play(call.player_cards, call.dealer_card,
                           call.true_count, call.can_double, call.can_split)]
    /\ UNCHANGED ui_vars

SpecRecommend == InitRecommend /\ [][CallRecommend]_vars

\* resolve: determine_winner called on a pair of hands, and on the same pair
\* with the roles exchanged.
InitResolve ==
    /\ UIInit
    /\ \E a \in OrderedHands(ResolveLabels, MaxResolveLen),
          b \in OrderedHands(ResolveLabels, MaxResolveLen) :
          call = [op |-> "resolve", a |-> a, b |-> b, done |-> FALSE]

CallResolve ==
    /\ call.op = "resolve"
    /\ ~call.done
    /\ call' = [op |-> "resolve", a |-> call.a, b |-> call.b, done |-> TRUE,
                ret_ab |-> determine_winner(call.a, call.b),
                ret_ba |-> determine_winner(call.b, call.a)]
    /\ UNCHANGED ui_vars

SpecResolve == InitResolve /\ [][CallResolve]_vars

\* Number of cards after the first ones in a list given to calculate_counts:
\* 8 decks are 416 cards.
MaxUpdateCards == 420

\* The first cards of a list given to calculate_counts: running counts of
\* 0, +4 and -4, for which the rounding of true_count meets no tie that the
\* float decides the other way.
UpdatePrefixes == {<<>>, <<"5", "5", "5", "5">>, <<"K", "K", "K", "K">>}

\* update: calculate_counts called with 1 to 8 decks on lists of up to
\* MaxUpdateCards + 4 cards, past the end of the shoe.
InitUpdate ==
    /\ UIInit
    /\ \E num_decks \in 1..8, prefix \in UpdatePrefixes, n \in 0..MaxUpdateCards :
          call = [op |-> "update", all_cards |-> prefix \o Repeat("9", n),
                  num_decks |-> num_decks, done |-> FALSE]

CallUpdate ==
    /\ call.op = "update"
    /\ ~call.done
    /\ call' = [op |-> "update", all_cards |-> call.all_cards,
                num_decks |-> call.num_decks, done |-> TRUE,
                ret |-> calculate_counts(call.all_cards, call.num_decks)]
    /\ UNCHANGED ui_vars

SpecUpdate == InitUpdate /\ [][CallUpdate]_vars

-----------------------------------------------------------------------------
(* Notions the properties are stated with, defined from the rules of the   *)
(* game and not from the functions above                                   *)

\* Value of a card with the Ace counted as 1.
RankValue(card) ==
    LET i == LabelIndex(card)
    IN  IF i <= 9 THEN i + 1 ELSE IF i <= 12 THEN 10 ELSE 1

RECURSIVE LowTotal(_)
LowTotal(cards) ==
    IF cards = <<>> THEN 0 ELSE RankValue(Head(cards)) + LowTotal(Tail(cards))

NumAces(cards) == Cardinality({i \in DOMAIN cards : cards[i] = "A"})

\* The totals reachable by counting each Ace as 1 or 11.
AceTotals(cards) == {LowTotal(cards) + 10 * k : k \in 0..NumAces(cards)}

BestTotal(cards) ==
    IF \E v \in AceTotals(cards) : v <= 21
    THEN CHOOSE v \in AceTotals(cards) :
            v <= 21 /\ \A w \in AceTotals(cards) : w <= 21 => w <= v
    ELSE LowTotal(cards)

\* The best total counts at least one Ace as 11.
IsSoftHand(cards) == BestTotal(cards) <= 21 /\ BestTotal(cards) > LowTotal(cards)

IsHardHand(cards) == ~IsSoftHand(cards)

\* Lookup value of the dealer's up-card: faces 10, Ace 11.
UpCardValue(card) == IF card = "A" THEN 11 ELSE RankValue(card)

\* Hi-Lo tag of a card.
HiLoTag(card) ==
    IF RankValue(card) \in 2..6 THEN 1 ELSE IF RankValue(card) \in 7..9 THEN 0 ELSE -1

Recommended == call.op = "recommend" /\ call.done
Evaluated == call.op = "evaluate" /\ call.done
Resolved == call.op = "resolve" /\ call.done

-----------------------------------------------------------------------------
(* Properties *)

\* C1: for every soft hand of total 13 to 17, recommend returns Double when
\* the dealer's up-card is 2 to 6 and can_double holds, and Hit otherwise.
C1_Soft13To17 ==
    (Recommended /\ IsSoftHand(call.player_cards)
        /\ BestTotal(call.player_cards) \in 13..17)
    => call.ret.action =
          (IF UpCardValue(call.dealer_card) \in 2..6 /\ call.can_double
           THEN DOUBLE ELSE HIT)

\* C2: for every soft 18, recommend returns Stand against 2, 7 or 8, Double
\* against 3 to 6 when can_double holds (Hit when it does not), and Hit
\* against 9, a 10-valued card or an Ace.
C2_Soft18 ==
    (Recommended /\ IsSoftHand(call.player_cards)
        /\ BestTotal(call.player_cards) = 18)
    => call.ret.action =
          (IF UpCardValue(call.dealer_card) \in {2, 7, 8} THEN STAND
           ELSE IF UpCardValue(call.dealer_card) \in 3..6
                THEN (IF call.can_double THEN DOUBLE ELSE HIT)
                ELSE HIT)

\* C3: for a hard 15 or 16 against a dealer's up-card valued 10, recommend
\* returns Stand when true_count >= 2 and Hit when true_count < 2.
C3_Hard15Or16VsTen ==
    (Recommended /\ IsHardHand(call.player_cards)
        /\ BestTotal(call.player_cards) \in {15, 16}
        /\ UpCardValue(call.dealer_card) = 10)
    => call.ret.action = (IF call.true_count >= 200 THEN STAND ELSE HIT)

\* The deviation has overridden the table's Hit: hard 16 against a ten at
\* true count 2.
C3_Witness ==
    /\ Recommended
    /\ IsHardHand(call.player_cards)
    /\ BestTotal(call.player_cards) = 16
    /\ UpCardValue(call.dealer_card) = 10
    /\ call.true_count = 200
    /\ HARD_STRATEGY[<<16, 10>>] = HIT
    /\ call.ret.action = STAND

\* C4: for every hard hand of total 5 to 21, every dealer's up-card and
\* true_count < 2, recommend returns Hit for 5 to 11; for 12, Stand against
\* 4 to 6 and Hit otherwise; for 13 to 16, Stand against 2 to 6 and Hit
\* otherwise; Stand for 17 to 21.
C4_HardBands ==
    (Recommended /\ IsHardHand(call.player_cards)
        /\ BestTotal(call.player_cards) \in 5..21
        /\ call.true_count < 200)
    => LET t == BestTotal(call.player_cards)
           d == UpCardValue(call.dealer_card)
       IN  call.ret.action =
             (IF t <= 11 THEN HIT
              ELSE IF t = 12 THEN (IF d \in 4..6 THEN STAND ELSE HIT)
              ELSE IF t <= 16 THEN (IF d \in 2..6 THEN STAND ELSE HIT)
              ELSE STAND)

\* A hard 12 against a dealer's 2, which is hit, at a true count below 2.
C4_Witness ==
    /\ Recommended
    /\ IsHardHand(call.player_cards)
    /\ BestTotal(call.player_cards) = 12
    /\ UpCardValue(call.dealer_card) = 2
    /\ call.true_count < 200
    /\ call.ret.action = HIT

\* C5: finishing a hand keeps every observed card in the count: the running
\* count after a finished hand is the running count before it (the player's
\* cards, the table's cards and the dealer's up-card) plus the Hi-Lo tag of
\* the dealer's hole card.
C5_FinishKeepsCount ==
    [][session_stats'.total_hands = session_stats.total_hands + 1
        => game_state'.running_count
             = game_state.running_count + HiLoTag(dealer_hidden_combo)]_vars

\* C6: a hand reset leaves the session ledger, the number of decks, the
\* cards marked on the table, the running count and the number of cards
\* seen as they were.
C6_HandResetFrame ==
    [][reset_hand_only
        => /\ session_stats' = session_stats
           /\ game_state'.num_decks = game_state.num_decks
           /\ decks_combo' = decks_combo
           /\ game_state'.table_cards = game_state.table_cards
           /\ game_state'.running_count = game_state.running_count
           /\ CardsPlayed(game_state') = CardsPlayed(game_state)]_vars

\* C7 as stated: for all non-empty hands A and B whose outcomes are neither
\* Pending nor Push, resolve(A,B) = Win iff resolve(B,A) = Lose.
C7_Antisymmetric ==
    (Resolved /\ call.a # <<>> /\ call.b # <<>>
        /\ call.ret_ab \notin {PENDING, PUSH} /\ call.ret_ba \notin {PENDING, PUSH})
    => (call.ret_ab = WIN <=> call.ret_ba = LOSE)

\* C7 amended: for all non-empty hands A and B that do not both total more
\* than 21 and whose outcomes are neither Pending nor Push, resolve(A,B) =
\* Win iff resolve(B,A) = Lose; when both total more than 21, resolve
\* returns Lose in both orders.
C7_AntisymmetricUnlessBothBust ==
    (Resolved /\ call.a # <<>> /\ call.b # <<>>)
    => IF BestTotal(call.a) > 21 /\ BestTotal(call.b) > 21
       THEN call.ret_ab = LOSE /\ call.ret_ba = LOSE
       ELSE (call.ret_ab \notin {PENDING, PUSH} /\ call.ret_ba \notin {PENDING, PUSH})
            => (call.ret_ab = WIN <=> call.ret_ba = LOSE)

\* A natural against a 21 of three cards: Win one way, Lose the other.
C7_Witness ==
    /\ Resolved
    /\ Len(call.a) = 2 /\ BestTotal(call.a) = 21
    /\ Len(call.b) = 3 /\ BestTotal(call.b) = 21
    /\ call.ret_ab = WIN
    /\ call.ret_ba = LOSE

\* C8: resolve applies its rules in order: an empty hand gives Pending; else
\* a player total above 21 gives Lose; else a dealer total above 21 gives
\* Win; else both natural Push, only the player natural Win, only the dealer
\* natural Lose; else the higher total wins and equal totals Push.
C8_RuleOrder ==
    Resolved =>
    LET pt == BestTotal(call.a)
        dt == BestTotal(call.b)
        pn == Len(call.a) = 2 /\ pt = 21
        dn == Len(call.b) = 2 /\ dt = 21
    IN  call.ret_ab =
          (IF call.a = <<>> \/ call.b = <<>> THEN PENDING
           ELSE IF pt > 21 THEN LOSE
           ELSE IF dt > 21 THEN WIN
           ELSE IF pn /\ dn THEN PUSH
           ELSE IF pn THEN WIN
           ELSE IF dn THEN LOSE
           ELSE IF pt > dt THEN WIN
           ELSE IF pt < dt THEN LOSE
           ELSE PUSH)

\* Both hands above 21: the player's bust is decided first.
C8_Witness ==
    /\ Resolved
    /\ BestTotal(call.a) > 21
    /\ BestTotal(call.b) > 21
    /\ call.ret_ab = LOSE

\* C9: evaluate returns the greatest total <= 21 reachable by counting each
\* Ace as 1 or 11, or the total with every Ace as 1 when there is none;
\* is_soft holds exactly when that total is <= 21 and counts an Ace as 11; a
\* hand without an Ace is never soft and the empty hand yields (0, false).
C9_EvaluateBestTotal ==
    Evaluated =>
        /\ call.ret.total = BestTotal(call.cards)
        /\ call.ret.is_soft = IsSoftHand(call.cards)
        /\ (NumAces(call.cards) = 0 => ~call.ret.is_soft)
        /\ (call.cards = <<>> => call.ret = [total |-> 0, is_soft |-> FALSE])

\* Two Aces or more, one of them still counted as 11 after a reduction.
C9_Witness ==
    /\ Evaluated
    /\ NumAces(call.cards) >= 2
    /\ call.ret.is_soft
    /\ call.ret.total = LowTotal(call.cards) + 10

\* C10: wins, losses and pushes are non-negative and total_hands is their
\* sum; a step that changes the ledger either clears it (shoe reset) or adds
\* one to total_hands and to exactly one of the three counters.
C10_LedgerState ==
    /\ session_stats.wins >= 0
    /\ session_stats.losses >= 0
    /\ session_stats.pushes >= 0
    /\ session_stats.total_hands
         = session_stats.wins + session_stats.losses + session_stats.pushes

C10_LedgerStep ==
    session_stats' # session_stats
    => \/ session_stats' = NewStats
       \/ /\ session_stats'.total_hands = session_stats.total_hands + 1
          /\ \E f \in {"wins", "losses", "pushes"} :
                session_stats' = [session_stats EXCEPT !.total_hands = @ + 1, ![f] = @ + 1]

\* C10: the ledger's state invariant and its step rule together.
C10_Ledger == [](C10_LedgerState) /\ [][C10_LedgerStep]_vars

\* Two hands recorded, one of them a push.
C10_Witness ==
    /\ session_stats.total_hands = 2
    /\ session_stats.pushes = 1

Updated == call.op = "update" /\ call.done

\* max(0.5, decks - cards_seen/52) in 52nds of a deck.
FlooredDecks52(decks, cards_seen) ==
    IF 2 * (52 * decks - cards_seen) >= 52 THEN 52 * decks - cards_seen ELSE 26

\* h hundredths is the rational n/d rounded to two decimals.
IsRounded(h, n, d) == 2 * (h * d - 100 * n) <= d /\ 2 * (100 * n - h * d) <= d

\* C11: after a shoe reset the count state and the ledger are cleared:
\* running count 0, true count 0, no card seen, decks_remaining equal to the
\* configured number of decks, wins = losses = pushes = total_hands = 0; the
\* configured number of decks is kept.
C11_ShoeResetClears ==
    [][last_handler' = "reset_game"
        => /\ game_state'.running_count = 0
           /\ game_state'.true_count = 0
           /\ CardsPlayed(game_state') = 0
           /\ \A l \in Labels : /\ player_buttons'[l].selected_count = 0
                                /\ table_buttons'[l].selected_count = 0
           /\ dealer_combo' = ""
           /\ game_state'.decks_remaining = 100 * decks_combo
           /\ session_stats'.wins = 0
           /\ session_stats'.losses = 0
           /\ session_stats'.pushes = 0
           /\ session_stats'.total_hands = 0
           /\ decks_combo' = decks_combo
           /\ game_state'.num_decks = decks_combo]_vars

\* A shoe reset has run with 1 deck configured instead of the 6 of start-up.
C11_Witness ==
    /\ last_handler = "reset_game"
    /\ decks_combo = 1
    /\ game_state.decks_remaining = 100

\* C12 as stated: update returns decks_remaining = max(0.5, decks -
\* cards_seen/52) for 1 to 8 decks and every number of cards seen.
C12_FlooredExactly ==
    Updated
    => 52 * call.ret.decks_remaining
         = 100 * FlooredDecks52(call.num_decks, Len(call.all_cards))

\* C12 amended: update returns max(0.5, decks - cards_seen/52) rounded to two
\* decimals, which is never below 0.5 and is exactly 0.5 when cards_seen =
\* decks x 52 or more; the true count is the running count divided by the
\* floored value, rounded to two decimals.
C12_FlooredAndRounded ==
    Updated
    => LET seen == Len(call.all_cards)
           d52 == FlooredDecks52(call.num_decks, seen)
       IN  /\ IsRounded(call.ret.decks_remaining, d52, 52)
           /\ call.ret.decks_remaining >= 50
           /\ (seen >= 52 * call.num_decks => call.ret.decks_remaining = 50)
           /\ IsRounded(call.ret.true_count, 52 * call.ret.running_count, d52)

\* The shoe is exactly used up, with a running count that is not 0.
C12_Witness ==
    /\ Updated
    /\ Len(call.all_cards) = 52 * call.num_decks
    /\ call.ret.running_count = 4
    /\ call.ret.decks_remaining = 50
    /\ call.ret.true_count = 800

\* C13: finish-hand with no player card marked, or no dealer up-card, or no
\* hole card selected changes nothing: ledger, player and table buttons,
\* dealer selections and count are as before.
C13_RejectedFinishChangesNothing ==
    [][(/\ last_handler' = "finish_hand"
        /\ \/ \A l \in Labels : player_buttons[l].selected_count = 0
           \/ dealer_combo = ""
           \/ dealer_hidden_combo = "")
        => UNCHANGED prog_vars]_vars

\* Finish-hand has run with player cards and an up-card but no hole card.
C13_Witness ==
    /\ last_handler = "finish_hand"
    /\ game_state.player_cards # <<>>
    /\ dealer_combo # ""
    /\ dealer_hidden_combo = ""

\* C14: the cap of every player and table button is 4 x the configured
\* number of decks.
C14_CapIsFourPerDeck ==
    \A l \in Labels :
        /\ player_buttons[l].max_count = 4 * game_state.num_decks
        /\ table_buttons[l].max_count = 4 * game_state.num_decks

\* C15: every card button has 0 <= selected_count <= max_count.
C15_SelectedWithinCap ==
    \A l \in Labels :
        /\ 0 <= player_buttons[l].selected_count
        /\ player_buttons[l].selected_count <= player_buttons[l].max_count
        /\ 0 <= table_buttons[l].selected_count
        /\ table_buttons[l].selected_count <= table_buttons[l].max_count

====
